---- MODULE Spec2Model ----
(***************************************************************************)
(* Model of the video comparison service: the two request handlers of      *)
(* app.py (compare_videos for uploaded files, compare_videos_urls for      *)
(* URLs), the per-item task safe_process / process_single_video they fan   *)
(* out, and the Comparator of comparator.py (choose_best).                 *)
(*                                                                         *)
(* Further sections model the chunked summarizer of summarizer.py, the     *)
(* Comparator on its own, the lazily loaded service handles and the        *)
(* downloader _download_with_yt_dlp, each with a specification of its own  *)
(* (SumSpec, CmpSpec, LazySpec, DlSpec) in which the rest stands still.    *)
(*                                                                         *)
(* In Spec one behaviour is one request.  Sources are numbered 1..n in     *)
(* submission order (Python index i is i+1).  The external services (disk, *)
(* the downloader, ffmpeg/Whisper, the BART pipeline, the embedding model) *)
(* are inputs: every step that calls one draws its outcome from the set    *)
(* of outcomes the call can have.                                          *)
(***************************************************************************)
EXTENDS Integers, Sequences, FiniteSets, TLC

\* Largest number of sources in one request.
MaxN == 3

\* Number of distinct lowercase words of the topic (len(topic_keywords_set)).
TopicLen == 2

VARIABLES
  endpoint,      \* "upload" (compare_videos) or "urls" (compare_videos_urls)
  n,             \* number of submitted sources: len(files) / len(payload.urls)
  has_filename,  \* has_filename[i]: file.filename of upload i is non-empty
  pc,            \* position of the request handler
  acq,           \* acq[i]: position of the save / download task of source i
  names,         \* video_names (upload) / names (urls): display names
  paths,         \* file_paths (upload) / paths (urls): media handed to the tasks
  errors,        \* errors (urls): acquisition skip entries
  tstate,        \* tstate[k]: position of the task safe_process(paths[k])
  transcripts,   \* transcripts[k]: what process_video gave task k (transcript or exception)
  summaries,     \* summaries[k]: value returned by safe_process(paths[k])
  files,         \* media files that exist on disk
  status,        \* HTTP status of the request, 0 while it runs
  detail,        \* detail of the HTTPException, when one is raised
  videos,        \* response field "videos"
  skipped,       \* response field "skipped"
  best_video,    \* response field "best_video"
  cmp_calls      \* argument lists choose_best was called with, in call order

vars == <<endpoint, n, has_filename, pc, acq, names, paths, errors, tstate,
          transcripts, summaries, files, status, detail, videos, skipped,
          best_video, cmp_calls>>

Sources == 1..n

(***************************************************************************)
(* Values.  A display name, a path and a text carry the source they come   *)
(* from, so that the response can be compared with the submission.         *)
(***************************************************************************)
\* file.filename of upload i / info["title"] of URL i
DisplayName(i) == [kind |-> "display", src |-> i]
\* payload.urls[i]
Url(i) == [kind |-> "url", src |-> i]
\* tempfile.gettempdir()/<uuid><ext> of upload i
UploadPath(i) == [kind |-> "upload", src |-> i]
\* req_dir/<tmp_id>.<ext> of URL i
DownloadPath(i) == [kind |-> "dl", src |-> i]
\* tempfile.gettempdir()/proc_<uuid><suffix>, the unlocked copy of p
ProcPath(p) == [kind |-> "proc", src |-> p.src]
\* pathlib.Path(p).name
Basename(p) == [kind |-> "basename", src |-> p.src]

NoText == [pfx |-> FALSE, body |-> "", media |-> 0, sem |-> 0, hits |-> 0, words |-> 0]

\* A text: pfx says whether it starts with the characters "ERROR:", body is
\* what follows, media is the source it was derived from; sem (cosine
\* similarity to the topic, in hundredths), hits (topic words it contains)
\* and words (its word count) are what the Comparator reads from it.
Text(pfx, body, media, sem, hits, words) ==
  [pfx |-> pfx, body |-> body, media |-> media, sem |-> sem, hits |-> hits, words |-> words]

\* str(e) of an exception raised while handling source i
Exc(body, i) == Text(FALSE, body, i, 0, 0, 0)

\* f"ERROR: {e}"
ErrorString(e) == [e EXCEPT !.pfx = TRUE, !.body = e.body]

\* f"copy_failed: {e}"
CopyFailedString(e) == [e EXCEPT !.pfx = FALSE, !.body = "copy_failed"]

\* str(s).startswith("ERROR:")
StartsWithError(s) == s.pfx

\* What the Comparator reads from a summary: <<sem, hits, words>>, the
\* cosine similarity to the topic in hundredths, the number of topic words
\* in the summary, and its word count.  Two sources can get the same shape.
SummaryShapes ==
  { <<40, 0, 120>>, <<70, 0, 120>>, <<70, 0, 300>>, <<40, TopicLen, 300>> }

\* The texts summarize_text can return for a non-empty transcript of source
\* i: a summary of one of the shapes, or a summary that itself starts with
\* the characters "ERROR:".
SummaryTexts(i) ==
  { Text(FALSE, "summary", i, sh[1], sh[2], sh[3]) : sh \in SummaryShapes }
    \cup { Text(TRUE, "summary", i, 40, 0, 120) }

(***************************************************************************)
(* comparator.py                                                           *)
(*                                                                         *)
(* The scores are Python floats (IEEE 754 binary64) and np.argmax compares *)
(* the rounded values, so the arithmetic is modelled with its rounding.    *)
(* A natural number of any size is a sequence of limbs, least significant  *)
(* first, without leading zeros (<<>> is 0).  A float is                   *)
(* [s |-> sign, m |-> mantissa, e |-> exponent] with the value s * m * 2^e *)
(* and a mantissa of exactly 53 bits, or zero.  The values of a score are  *)
(* far from the overflow and subnormal ranges, which are not modelled.     *)
(***************************************************************************)
\* bits of a limb, and 2^LimbBits
LimbBits == 15
LimbBase == 32768
\* bits of the mantissa of a binary64 float
MantissaBits == 53
\* bits computed of a quotient before it is rounded
QuotientShift == 70

Max(a, b) == IF a >= b THEN a ELSE b
Min(a, b) == IF a <= b THEN a ELSE b

RECURSIVE BigFromInt(_)
\* the natural number v as limbs
BigFromInt(v) ==
  IF v = 0 THEN <<>> ELSE <<v % LimbBase>> \o BigFromInt(v \div LimbBase)

RECURSIVE Trim(_)
\* a without leading zero limbs
Trim(a) ==
  IF a = <<>> THEN a
  ELSE IF a[Len(a)] = 0 THEN Trim(SubSeq(a, 1, Len(a) - 1))
  ELSE a

\* a without its least significant limb
Rest(a) == IF a = <<>> THEN a ELSE Tail(a)
\* the least significant limb of a
Low(a) == IF a = <<>> THEN 0 ELSE a[1]

RECURSIVE AddC(_, _, _)
\* a + b + c, c the carry
AddC(a, b, c) ==
  IF a = <<>> /\ b = <<>>
  THEN IF c = 0 THEN <<>> ELSE <<c>>
  ELSE LET v == Low(a) + Low(b) + c
       IN  <<v % LimbBase>> \o AddC(Rest(a), Rest(b), v \div LimbBase)

BigAdd(a, b) == AddC(a, b, 0)

RECURSIVE SubB(_, _, _)
\* a - b - c for a >= b + c, c the borrow
SubB(a, b, c) ==
  IF a = <<>> THEN <<>>
  ELSE LET v == a[1] - Low(b) - c
       IN  <<IF v < 0 THEN v + LimbBase ELSE v>>
             \o SubB(Tail(a), Rest(b), IF v < 0 THEN 1 ELSE 0)

BigSub(a, b) == Trim(SubB(a, b, 0))

RECURSIVE BigCmp(_, _)
\* -1, 0 or 1 as a < b, a = b or a > b
BigCmp(a, b) ==
  IF Len(a) # Len(b) THEN (IF Len(a) < Len(b) THEN -1 ELSE 1)
  ELSE IF a = <<>> THEN 0
  ELSE LET k == Len(a)
       IN  IF a[k] # b[k] THEN (IF a[k] < b[k] THEN -1 ELSE 1)
           ELSE BigCmp(SubSeq(a, 1, k - 1), SubSeq(b, 1, k - 1))

RECURSIVE MulC(_, _, _)
\* a * d + c for a limb d
MulC(a, d, c) ==
  IF a = <<>>
  THEN IF c = 0 THEN <<>> ELSE <<c>>
  ELSE LET v == a[1] * d + c
       IN  <<v % LimbBase>> \o MulC(Tail(a), d, v \div LimbBase)

BigMulSmall(a, d) == IF d = 0 THEN <<>> ELSE MulC(a, d, 0)

RECURSIVE BigMul(_, _)
BigMul(a, b) ==
  IF a = <<>> \/ b = <<>> THEN <<>>
  ELSE LET r == BigMul(Tail(a), b)
       IN  BigAdd(BigMulSmall(b, a[1]), IF r = <<>> THEN r ELSE <<0>> \o r)

RECURSIVE BigDivSmall(_, _)
\* quotient q and remainder r of a by d, 0 < d < 2 * LimbBase
BigDivSmall(a, d) ==
  IF a = <<>> THEN [q |-> <<>>, r |-> 0]
  ELSE LET hi == BigDivSmall(Tail(a), d)
           v  == hi.r * LimbBase + a[1]
       IN  [q |-> IF hi.q = <<>> /\ v \div d = 0 THEN <<>>
                  ELSE <<v \div d>> \o hi.q,
            r |-> v % d]

\* a * 2^k and a \div 2^k
BigShl(a, k) ==
  IF a = <<>> THEN a
  ELSE [j \in 1..(k \div LimbBits) |-> 0] \o BigMulSmall(a, 2^(k % LimbBits))

BigShr(a, k) ==
  IF k \div LimbBits >= Len(a) THEN <<>>
  ELSE BigDivSmall(SubSeq(a, (k \div LimbBits) + 1, Len(a)), 2^(k % LimbBits)).q

RECURSIVE SmallBitLen(_)
SmallBitLen(v) == IF v = 0 THEN 0 ELSE 1 + SmallBitLen(v \div 2)

\* number of bits of a
BitLen(a) ==
  IF a = <<>> THEN 0
  ELSE LimbBits * (Len(a) - 1) + SmallBitLen(a[Len(a)])

FZero == [s |-> 1, m |-> <<>>, e |-> 0]

\* the float of sign s with the mantissa q, of 53 bits or, after a carry
\* of the rounding, 54, and the exponent e
FNormal(s, q, e) ==
  IF BitLen(q) > MantissaBits
  THEN [s |-> s, m |-> BigShr(q, 1), e |-> e + 1]
  ELSE [s |-> s, m |-> q, e |-> e]

\* q rounded up or not: c is -1, 0 or 1 as the bits cut off are less than,
\* equal to or more than half a unit of q; a tie goes to the even mantissa
FRoundTie(s, q, e, c) ==
  FNormal(s, IF c > 0 \/ (c = 0 /\ q[1] % 2 = 1) THEN BigAdd(q, <<1>>) ELSE q, e)

\* v = q * 2^k + the k bits cut off
FRoundCut(s, v, e, k, q) ==
  FRoundTie(s, q, e + k, BigCmp(BigSub(v, BigShl(q, k)), BigShl(<<1>>, k - 1)))

\* len is the number of bits of v
FRoundLen(s, v, e, len) ==
  IF len = 0 THEN FZero
  ELSE IF len <= MantissaBits
  THEN [s |-> s, m |-> BigShl(v, MantissaBits - len), e |-> e - (MantissaBits - len)]
  ELSE FRoundCut(s, v, e, len - MantissaBits, BigShr(v, len - MantissaBits))

\* the float nearest to s * v * 2^e, ties to the even mantissa
FRound(s, v, e) == FRoundLen(s, v, e, BitLen(v))

\* d: quotient and remainder; the last bit of the value rounded stands for
\* a remainder that is not zero
FromQuotient(s, d) ==
  FRound(s, BigAdd(BigMulSmall(d.q, 2), IF d.r = 0 THEN <<>> ELSE <<1>>),
         -(QuotientShift + 1))

\* num / den of two ints, and the decimal literal num/den: the float
\* nearest to the quotient
FromRatio(num, den) ==
  FromQuotient(IF num < 0 THEN -1 ELSE 1,
               BigDivSmall(BigShl(BigFromInt(IF num < 0 THEN -num ELSE num),
                                  QuotientShift), den))

FNeg(x) == IF x.m = <<>> THEN x ELSE [x EXCEPT !.s = -x.s]

\* x * y
FMul(x, y) == FRound(x.s * y.s, BigMul(x.m, y.m), x.e + y.e)

\* xs * xv * 2^e + ys * yv * 2^e, c comparing xv with yv
FAddCompared(xs, xv, ys, yv, e, c) ==
  FRound(IF xs = ys \/ c > 0 THEN xs ELSE ys,
         IF xs = ys THEN BigAdd(xv, yv)
         ELSE IF c >= 0 THEN BigSub(xv, yv) ELSE BigSub(yv, xv),
         e)

FAddAligned(xs, xv, ys, yv, e) == FAddCompared(xs, xv, ys, yv, e, BigCmp(xv, yv))

\* x + y
FAdd(x, y) ==
  IF x.m = <<>> THEN y
  ELSE IF y.m = <<>> THEN x
  ELSE FAddAligned(x.s, BigShl(x.m, x.e - Min(x.e, y.e)),
                   y.s, BigShl(y.m, y.e - Min(x.e, y.e)), Min(x.e, y.e))

\* |x| < |y| for two floats that are not zero (mantissas of equal length)
FMagLess(x, y) == x.e < y.e \/ (x.e = y.e /\ BigCmp(x.m, y.m) < 0)

\* x < y
FLess(x, y) ==
  IF x.m = <<>> THEN y.m # <<>> /\ y.s = 1
  ELSE IF y.m = <<>> THEN x.s = -1
  ELSE IF x.s # y.s THEN x.s < y.s
  ELSE IF x.s = 1 THEN FMagLess(x, y)
  ELSE FMagLess(y, x)

\* 140 and 60 in conciseness = min(1.0, 140 / max(60, len(words)))
TargetWords == 140
LowerBound == 60
\* the literals 0.65, 0.2, 0.15 and 1.0
WSemantic == FromRatio(65, 100)
WCoverage == FromRatio(2, 10)
WConciseness == FromRatio(15, 100)
One == FromRatio(1, 1)

\* min(1.0, q)
MinOne(q) == IF FLess(q, One) THEN q ELSE One

\* min(1.0, 140 / max(60, len(words)))
Conciseness(words) == MinOne(FromRatio(TargetWords, Max(LowerBound, words)))

\* float(sem_scores[i]): the float nearest to sem/100
Semantic(t) == FromRatio(t.sem, 100)

\* len(topic_keywords_set & summ_words) / max(1, len(topic_keywords_set))
Coverage(t) == FromRatio(t.hits, Max(1, TopicLen))

\* Score with the conciseness term subtracted
ScoreConcisenessSubtracted(t) ==
  FAdd(FAdd(FMul(WSemantic, Semantic(t)), FMul(WCoverage, Coverage(t))),
       FNeg(FMul(WConciseness, Conciseness(t.words))))

\* score = 0.65 * semantic + 0.2 * coverage + 0.15 * conciseness
Score(t) ==
  FAdd(FAdd(FMul(WSemantic, Semantic(t)), FMul(WCoverage, Coverage(t))),
       FMul(WConciseness, Conciseness(t.words)))

\* a < b and a = b for two scores
ScoreLess(a, b) == FLess(a, b)
ScoreEq(a, b) == a = b

\* _compute_scores: one score per summary, in the order given
_compute_scores(summs) == [k \in 1..Len(summs) |-> Score(summs[k])]

\* np.argmax: the first position holding the maximum
\* (0 stands for the ValueError it raises on an empty sequence)
ArgMax(scores) ==
  IF Len(scores) = 0 THEN 0
  ELSE CHOOSE k \in 1..Len(scores) :
         /\ \A j \in 1..Len(scores) : ~ScoreLess(scores[k], scores[j])
         /\ \A j \in 1..(k - 1) : ScoreLess(scores[j], scores[k])

\* choose_best(summaries, topic) -> (best_index, scores)
choose_best(summs) ==
  LET scores == _compute_scores(summs)
  IN  [best_index |-> ArgMax(scores), scores |-> scores]

(***************************************************************************)
(* List comprehensions of the handlers                                     *)
(***************************************************************************)
RECURSIVE IndicesFrom(_, _, _)
\* [i for i in range(k, len(flags)) if flags[i] == want]
IndicesFrom(flags, k, want) ==
  IF k > Len(flags) THEN <<>>
  ELSE (IF flags[k] = want THEN <<k>> ELSE <<>>) \o IndicesFrom(flags, k + 1, want)

\* valid_indices = [i for i, s in enumerate(summaries) if not str(s).startswith("ERROR:")]
valid_indices(summs) ==
  IndicesFrom([k \in 1..Len(summs) |-> StartsWithError(summs[k])], 1, FALSE)

\* [i for i in range(len(summaries)) if i not in valid_indices]
invalid_indices(summs) ==
  IndicesFrom([k \in 1..Len(summs) |-> StartsWithError(summs[k])], 1, TRUE)

\* [seq[i] for i in idx]
Pick(seq, idx) == [j \in 1..Len(idx) |-> seq[idx[j]]]

\* "videos": zip(filtered_names, filtered_summaries, scores, details)
VideoEntries(fnames, fsumms, scores) ==
  [j \in 1..Min(Len(fnames), Min(Len(fsumms), Len(scores))) |->
     [name |-> fnames[j], summary |-> fsumms[j], score |-> scores[j]]]

\* [{"name": names[i], "error": summaries[i]} for i ... if i not in valid_indices]
ProcessingSkips(nms, summs) ==
  LET bad == invalid_indices(summs)
  IN  [j \in 1..Len(bad) |-> [name |-> nms[bad[j]], error |-> summs[bad[j]]]]

(***************************************************************************)
(* The request                                                             *)
(***************************************************************************)
NoDetail == [message |-> "", errors |-> <<>>]
NoName == [kind |-> "none", src |-> 0]

Init ==
  /\ endpoint \in {"upload", "urls"}
  /\ n \in 0..MaxN
  /\ endpoint = "upload" => n >= 1
  /\ has_filename \in [1..n -> BOOLEAN]
  /\ endpoint = "urls" => \A i \in 1..n : has_filename[i]
  /\ pc = "start"
  /\ acq = [i \in 1..n |-> "idle"]
  /\ names = <<>>
  /\ paths = <<>>
  /\ errors = <<>>
  /\ tstate = <<>>
  /\ transcripts = <<>>
  /\ summaries = <<>>
  /\ files = {}
  /\ status = 0
  /\ detail = NoDetail
  /\ videos = <<>>
  /\ skipped = <<>>
  /\ best_video = NoName
  /\ cmp_calls = <<>>

\* raise HTTPException(status_code=code, detail=d): the handler ends
Raise(code, d) ==
  /\ status' = code
  /\ detail' = d
  /\ pc' = "done"
  /\ UNCHANGED <<videos, skipped, best_video, cmp_calls>>

\* summaries = await asyncio.gather(*[safe_process(p) for p in paths]):
\* one task per path is started
Launch(ps) ==
  /\ paths' = ps
  /\ tstate' = [k \in 1..Len(ps) |-> "ready"]
  /\ transcripts' = [k \in 1..Len(ps) |-> "none"]
  /\ summaries' = [k \in 1..Len(ps) |-> NoText]
  /\ pc' = "processing"

(***************************************************************************)
(* compare_videos: acquisition of the uploads                              *)
(***************************************************************************)
\* The loop over files: a file without a filename raises 400 before any
\* save_file coroutine is awaited; otherwise all saves are started together.
compare_videos_begin ==
  /\ endpoint = "upload"
  /\ pc = "start"
  /\ IF \E i \in Sources : ~has_filename[i]
     THEN /\ Raise(400, [message |-> "Uploaded file has no filename", errors |-> <<>>])
          /\ UNCHANGED <<acq, names, paths>>
     ELSE /\ names' = [i \in 1..n |-> DisplayName(i)]
          /\ paths' = [i \in 1..n |-> UploadPath(i)]
          /\ acq' = [i \in 1..n |-> "running"]
          /\ pc' = "saving"
          /\ UNCHANGED <<status, detail, videos, skipped, best_video, cmp_calls>>
  /\ UNCHANGED <<endpoint, n, has_filename, errors, tstate, transcripts, summaries, files>>

\* save_file(file, path), up to its first await: open(path, "wb") creates
\* the file, or raises and the save ends.
save_file_open(i) ==
  /\ endpoint = "upload"
  /\ acq[i] = "running"
  /\ \/ /\ acq' = [acq EXCEPT ![i] = "writing"]
        /\ files' = files \cup {UploadPath(i)}
     \/ /\ acq' = [acq EXCEPT ![i] = "failed"]
        /\ UNCHANGED files
  /\ UNCHANGED <<endpoint, n, has_filename, pc, names, paths, errors, tstate,
                 transcripts, summaries, status, detail, videos, skipped,
                 best_video, cmp_calls>>

\* save_file(file, path), the loop: chunk = await file.read(CHUNK_SIZE)
\* gives way to the other coroutines before every chunk; the save returns
\* after the last chunk, or a read or write raises and the file stays.
save_file(i) ==
  /\ endpoint = "upload"
  /\ acq[i] = "writing"
  /\ \E out \in {"ok", "failed"} : acq' = [acq EXCEPT ![i] = out]
  /\ UNCHANGED <<endpoint, n, has_filename, pc, names, paths, errors, tstate,
                 transcripts, summaries, files, status, detail, videos, skipped,
                 best_video, cmp_calls>>

\* await asyncio.gather(*save_tasks) returns once every save has returned
SavesReturned == \A i \in Sources : acq[i] = "ok"
\* ... and raises the first exception as soon as one save has raised
\* (no return_exceptions); the other saves keep running.
SaveRaised == \E i \in Sources : acq[i] = "failed"

compare_videos_saved ==
  /\ endpoint = "upload"
  /\ pc = "saving"
  /\ \/ /\ SaveRaised
        /\ Raise(500, [message |-> "Internal Server Error", errors |-> <<>>])
        /\ UNCHANGED <<paths, tstate, transcripts, summaries>>
     \/ /\ SavesReturned
        /\ Launch(paths)
        /\ UNCHANGED <<status, detail, videos, skipped, best_video, cmp_calls>>
  /\ UNCHANGED <<endpoint, n, has_filename, acq, names, errors, files>>

(***************************************************************************)
(* safe_process(path) -> process_single_video(path): one task per path     *)
(***************************************************************************)
\* the WAV file extract_audio creates for the media p
WavPath(p) == [kind |-> "wav", src |-> p.src]

\* "No content to summarize."
NoContentText(i) == Text(FALSE, "No content to summarize.", i, 40, 0, 4)

Tasks == 1..Len(tstate)

\* finally: shutil.rmtree(req_dir, ignore_errors=True) on the files fs: the
\* downloads are removed, except those it cannot remove (held), which stay.
RmTree(fs, held) == {f \in fs : f.kind # "dl" \/ f \in held}

\* the files of fs that rmtree may be unable to remove
Downloads(fs) == {f \in fs : f.kind = "dl"}

\* os.remove(p) while the files fs exist: it removes p, or raises
\* PermissionError, or (p is not there, or just went) FileNotFoundError
RemoveOutcomes(p, fs) ==
  IF p \in fs THEN {"removed", "denied", "missing"} ELSE {"missing"}

\* An exception leaves safe_process(paths[k]): the task ends without a
\* value.  The handler, waiting in its gather, is resumed with the
\* exception in a later step; the other tasks keep running.
TaskCrash(k, fs) ==
  /\ tstate' = [tstate EXCEPT ![k] = "crashed"]
  /\ files' = fs
  /\ UNCHANGED <<summaries, pc, status, detail, videos, skipped, best_video, cmp_calls>>

\* The except branch of safe_process: process_single_video raised e while
\* the files fs existed.  os.remove(path) removes the path and the task
\* returns f"ERROR: {e}"; FileNotFoundError is suppressed; any other
\* exception of os.remove leaves the task.
TaskFailure(k, e, fs) ==
  \E rm \in RemoveOutcomes(paths[k], fs) :
    IF rm = "denied"
    THEN TaskCrash(k, fs)
    ELSE /\ files' = fs \ {paths[k]}
         /\ summaries' = [summaries EXCEPT ![k] = ErrorString(e)]
         /\ tstate' = [tstate EXCEPT ![k] = "done"]
         /\ UNCHANGED <<pc, status, detail, videos, skipped, best_video, cmp_calls>>

\* process_single_video returned the summary t
TaskSuccess(k, t, fs) ==
  /\ files' = fs
  /\ summaries' = [summaries EXCEPT ![k] = t]
  /\ tstate' = [tstate EXCEPT ![k] = "done"]
  /\ UNCHANGED <<pc, status, detail, videos, skipped, best_video, cmp_calls>>

\* transcript = await asyncio.to_thread(process_video, file_path) runs in a
\* worker thread while the other tasks and the handler go on.  extract_audio
\* first makes the WAV file (NamedTemporaryFile, delete=False); when that
\* raises there is no WAV file and process_video raises.
extract_audio(k) ==
  /\ k \in Tasks
  /\ tstate[k] = "ready"
  /\ \/ /\ tstate' = [tstate EXCEPT ![k] = "extracting"]
        /\ files' = files \cup {WavPath(paths[k])}
        /\ UNCHANGED transcripts
     \/ /\ tstate' = [tstate EXCEPT ![k] = "raised"]
        /\ transcripts' = [transcripts EXCEPT ![k] = "no temporary file"]
        /\ UNCHANGED files
  /\ UNCHANGED <<endpoint, n, has_filename, pc, acq, names, paths, errors,
                 summaries, status, detail, videos, skipped, best_video,
                 cmp_calls>>

\* subprocess.run(["ffmpeg", ...]): ffmpeg reads the media as it is on disk
\* when it starts.  It fails on media that is not there or that it cannot
\* read, or is not installed.
FfmpegOutcomes(k) ==
  IF paths[k] \in files THEN {"extracted", "ffmpeg failed"} ELSE {"ffmpeg failed"}

\* The rest of extract_audio: ffmpeg writes the WAV file and the path is
\* returned, or RuntimeError is raised; the call stands before the try of
\* process_video, so the WAV file is then left and process_video raises.
extract_audio_run(k) ==
  /\ k \in Tasks
  /\ tstate[k] = "extracting"
  /\ \E out \in FfmpegOutcomes(k) :
       IF out = "extracted"
       THEN /\ tstate' = [tstate EXCEPT ![k] = "extracted"]
            /\ UNCHANGED transcripts
       ELSE /\ tstate' = [tstate EXCEPT ![k] = "raised"]
            /\ transcripts' = [transcripts EXCEPT ![k] = out]
  /\ UNCHANGED <<endpoint, n, has_filename, pc, acq, names, paths, errors,
                 summaries, files, status, detail, videos, skipped,
                 best_video, cmp_calls>>

\* what the try block of process_video ends with: the transcript of
\* Whisper, with text or empty, or the exception of transcribe_audio
TranscribeOutcomes == {"speech", "silent", "transcription failed"}

\* try: transcript = transcribe_audio(audio_path).  The media is no longer
\* read; the finally block is still to run.
transcribe_audio(k) ==
  /\ k \in Tasks
  /\ tstate[k] = "extracted"
  /\ \E out \in TranscribeOutcomes :
       transcripts' = [transcripts EXCEPT ![k] = out]
  /\ tstate' = [tstate EXCEPT ![k] = "finally"]
  /\ UNCHANGED <<endpoint, n, has_filename, pc, acq, names, paths, errors,
                 summaries, files, status, detail, videos, skipped,
                 best_video, cmp_calls>>

\* finally: if os.path.exists(audio_path): os.remove(audio_path).  The WAV
\* file is removed, or was not there and nothing is done ("removed"), or
\* os.remove raises PermissionError and the file stays ("denied"), or the
\* file went after os.path.exists saw it and os.remove raises
\* FileNotFoundError ("missing").
WavRemoveOutcomes(k) ==
  IF WavPath(paths[k]) \in files THEN {"removed", "denied", "missing"}
  ELSE {"removed"}

\* str(e) of the exception os.remove raised
RemoveMessage(rm) ==
  IF rm = "denied" THEN "Permission denied" ELSE "No such file or directory"

\* the outcomes of process_video that are exceptions
ProcessVideoRaises ==
  {"no temporary file", "ffmpeg failed", "transcription failed",
   "Permission denied", "No such file or directory"}

\* The finally block and the end of process_video: an exception of
\* os.remove takes the place of the transcript or of the exception of
\* transcribe_audio; otherwise the transcript is returned or that exception
\* goes on.  The worker thread ends: transcripts[k] holds the transcript
\* returned or the exception raised, which the task meets when the event
\* loop resumes it.
process_video(k) ==
  /\ k \in Tasks
  /\ tstate[k] = "finally"
  /\ \E rm \in WavRemoveOutcomes(k) :
       /\ files' = IF rm = "denied" THEN files ELSE files \ {WavPath(paths[k])}
       /\ transcripts' = IF rm = "removed" THEN transcripts
                         ELSE [transcripts EXCEPT ![k] = RemoveMessage(rm)]
       /\ tstate' = [tstate EXCEPT ![k] =
                       IF transcripts'[k] \in ProcessVideoRaises
                       THEN "raised" ELSE "transcribed"]
  /\ UNCHANGED <<endpoint, n, has_filename, pc, acq, names, paths, errors,
                 summaries, status, detail, videos, skipped, best_video,
                 cmp_calls>>

\* The task is resumed with the exception of process_video: the except
\* branch of safe_process.
safe_process_except(k) ==
  /\ k \in Tasks
  /\ tstate[k] = "raised"
  /\ TaskFailure(k, Exc(transcripts[k], paths[k].src), files)
  /\ UNCHANGED <<endpoint, n, has_filename, acq, names, paths, errors, transcripts>>

\* summary = await asyncio.to_thread(summarize_text, transcript): the
\* texts it can return; an empty or blank transcript gives the fixed text.
SummarizeTexts(k) ==
  IF transcripts[k] = "silent"
  THEN {NoContentText(paths[k].src)}
  ELSE SummaryTexts(paths[k].src)

\* the exception os.remove raised for the media of source i
RemoveError(rm, i) == Exc(RemoveMessage(rm), i)

\* summarize_text raises, or returns and os.remove(file_path) follows;
\* return summary if the file was removed, the except branch otherwise.
Summarize(k) ==
  /\ k \in Tasks
  /\ tstate[k] = "transcribed"
  /\ \/ TaskFailure(k, Exc("summarization failed", paths[k].src), files)
     \/ \E t \in SummarizeTexts(k), rm \in RemoveOutcomes(paths[k], files) :
          IF rm = "removed"
          THEN TaskSuccess(k, t, files \ {paths[k]})
          ELSE TaskFailure(k, RemoveError(rm, paths[k].src),
                           IF rm = "denied" THEN files ELSE files \ {paths[k]})
  /\ UNCHANGED <<endpoint, n, has_filename, acq, names, paths, errors, transcripts>>

\* asyncio.gather(*[safe_process(p) ...]) without return_exceptions raises
\* the exception of a task to the handler that awaits it
GatherRaised == \E k \in Tasks : tstate[k] = "crashed"

\* AllTasksDone returning with the first task that returns
AnyTaskDone == \E k \in Tasks : tstate[k] = "done"

\* asyncio.gather(*[safe_process(p) ...]) returns when every task has returned
AllTasksDone == \A k \in Tasks : tstate[k] = "done"

(***************************************************************************)
(* The join, the Comparator and the response                               *)
(***************************************************************************)
\* if not valid_indices
NoneValid(vi) == Len(vi) = 0

\* choose_best raised: there is no best index and there are no scores
ChooseBestRaised == [best_index |-> 0, scores |-> <<>>]

\* choose_best(summs, topic) returns, or raises: get_model cannot load the
\* embedding model, the encoding fails, or np.argmax is given no score
ChooseBestOutcomes(summs) ==
  IF Len(summs) = 0 THEN {ChooseBestRaised}
  ELSE {choose_best(summs), ChooseBestRaised}

\* best_rel, scores, details = choose_best(filtered_summaries, topic) and
\* the returned dict.  An exception of choose_best is not handled: the
\* call was made and the request ends with status 500.
Compare(fnames, fsumms, skips) ==
  /\ cmp_calls' = Append(cmp_calls, fsumms)
  /\ pc' = "done"
  /\ \E r \in ChooseBestOutcomes(fsumms) :
       IF r = ChooseBestRaised
       THEN /\ status' = 500
            /\ detail' = [message |-> "Internal Server Error", errors |-> <<>>]
            /\ UNCHANGED <<videos, skipped, best_video>>
       ELSE /\ status' = 200
            /\ detail' = NoDetail
            /\ videos' = VideoEntries(fnames, fsumms, r.scores)
            /\ skipped' = skips
            /\ best_video' = fnames[r.best_index]

\* detail of the 500 raised when no summary is valid
AggregateMessage ==
  IF endpoint = "upload" THEN "All videos failed to process."
  ELSE "All processed videos failed"

\* The statements after the gather of either handler, up to the return.
Finish(skips) ==
  LET vi == valid_indices(summaries)
  IN  IF NoneValid(vi)
      THEN Raise(500, [message |-> AggregateMessage, errors |-> errors])
      ELSE Compare(Pick(names, vi), Pick(summaries, vi), skips)

compare_videos_joined ==
  /\ endpoint = "upload"
  /\ pc = "processing"
  /\ AllTasksDone
  /\ Finish(ProcessingSkips(names, summaries))
  /\ UNCHANGED <<endpoint, n, has_filename, acq, names, paths, errors, tstate,
                 transcripts, summaries, files>>

\* compare_videos is resumed at its gather with the exception of a task:
\* nothing handles it and the request ends with status 500.
compare_videos_raised ==
  /\ endpoint = "upload"
  /\ pc = "processing"
  /\ GatherRaised
  /\ Raise(500, [message |-> "Internal Server Error", errors |-> <<>>])
  /\ UNCHANGED <<endpoint, n, has_filename, acq, names, paths, errors, tstate,
                 transcripts, summaries, files>>

(***************************************************************************)
(* compare_videos_urls                                                     *)
(***************************************************************************)
\* if not payload.urls: 400.  req_dir = tempfile.mkdtemp(prefix="dl_") stands
\* before the try: when it raises, the request ends with status 500 and no
\* download is started.  Otherwise the downloads are started together.
compare_videos_urls_begin ==
  /\ endpoint = "urls"
  /\ pc = "start"
  /\ IF n = 0
     THEN /\ Raise(400, [message |-> "No URLs provided", errors |-> <<>>])
          /\ UNCHANGED acq
     ELSE \/ /\ Raise(500, [message |-> "Internal Server Error", errors |-> <<>>])
             /\ UNCHANGED acq
          \/ /\ acq' = [i \in 1..n |-> "running"]
             /\ pc' = "downloading"
             /\ UNCHANGED <<status, detail, videos, skipped, best_video, cmp_calls>>
  /\ UNCHANGED <<endpoint, n, has_filename, names, paths, errors, tstate,
                 transcripts, summaries, files>>

\* _download_with_yt_dlp in its worker thread, up to ydl.extract_info: it
\* raises or returns, and either way has left the file of the URL in
\* req_dir or not (a download can fail after its file is written).
extract_info(i) ==
  /\ endpoint = "urls"
  /\ acq[i] = "running"
  /\ acq' \in {[acq EXCEPT ![i] = "failed"], [acq EXCEPT ![i] = "polling"]}
  /\ files' \in {files, files \cup {DownloadPath(i)}}
  /\ UNCHANGED <<endpoint, n, has_filename, pc, names, paths, errors, tstate,
                 transcripts, summaries, status, detail, videos, skipped,
                 best_video, cmp_calls>>

\* The rest of download_video_async(u, req_dir): the looks at the file and
\* the poll loop, while the other downloads go on.  It returns (path, title)
\* with the file at path ("ok"), or with no file at path ("nofile": the
\* fallback to the expected path after the rounds of the loop), or raises
\* when the file it saw at first is gone when it looks again.
download_video_async(i) ==
  /\ endpoint = "urls"
  /\ acq[i] = "polling"
  /\ \/ /\ acq' = [acq EXCEPT ![i] = "ok"]
        /\ files' = files \cup {DownloadPath(i)}
     \/ /\ acq' = [acq EXCEPT ![i] = "nofile"]
        /\ files' = files \ {DownloadPath(i)}
     \/ /\ DownloadPath(i) \in files
        /\ acq' = [acq EXCEPT ![i] = "failed"]
        /\ files' = files \ {DownloadPath(i)}
  /\ UNCHANGED <<endpoint, n, has_filename, pc, names, paths, errors, tstate,
                 transcripts, summaries, status, detail, videos, skipped,
                 best_video, cmp_calls>>

\* download i returned (path, title)
Returned(i) == acq[i] \in {"ok", "nofile"}

\* asyncio.gather(..., return_exceptions=True) returns when every download
\* has returned or raised
DownloadsSettled == \A i \in Sources : Returned(i) \/ acq[i] = "failed"

\* if not paths
NoPaths(ps) == Len(ps) = 0

\* paths = unlocked_paths if unlocked_paths else paths
PathsToProcess(unlocked, ps) == IF Len(unlocked) > 0 THEN unlocked ELSE ps

\* shutil.copyfile(p, dst) for every p of ps while the files fs exist: it
\* copies ("ok"), or raises before creating dst ("failed"), as it must when
\* p does not exist, or raises after creating dst ("partial")
CopyOutcomes(ps, fs) ==
  {copy \in [1..Len(ps) -> {"ok", "failed", "partial"}] :
     \A j \in 1..Len(ps) : ps[j] \notin fs => copy[j] = "failed"}

\* From the gather of the downloads to the gather of the tasks: the loop
\* over the downloads, the 502, and the loop making the unlocked copies.
compare_videos_urls_downloaded ==
  /\ endpoint = "urls"
  /\ pc = "downloading"
  /\ DownloadsSettled
  /\ LET flags == [i \in 1..n |-> Returned(i)]
         okidx == IndicesFrom(flags, 1, TRUE)
         badidx == IndicesFrom(flags, 1, FALSE)
         nms == [j \in 1..Len(okidx) |-> DisplayName(okidx[j])]
         ps == [j \in 1..Len(okidx) |-> DownloadPath(okidx[j])]
         errs == [j \in 1..Len(badidx) |->
                    [name |-> Url(badidx[j]),
                     error |-> Exc("download failed", badidx[j])]]
     IN  IF NoPaths(ps)
         THEN /\ Raise(502, [message |-> "Failed to download all URLs", errors |-> errs])
              /\ \E held \in SUBSET Downloads(files) : files' = RmTree(files, held)
              /\ errors' = errs
              /\ names' = nms
              /\ UNCHANGED <<paths, tstate, transcripts, summaries>>
         ELSE \E copy \in CopyOutcomes(ps, files) :
                LET cflags == [j \in 1..Len(ps) |-> copy[j] = "ok"]
                    copied == IndicesFrom(cflags, 1, TRUE)
                    failed == IndicesFrom(cflags, 1, FALSE)
                    unlocked_paths == [j \in 1..Len(copied) |-> ProcPath(ps[copied[j]])]
                    cerrs == [j \in 1..Len(failed) |->
                                [name |-> Basename(ps[failed[j]]),
                                 error |-> CopyFailedString(Exc("", ps[failed[j]].src))]]
                IN  /\ names' = nms
                    /\ errors' = errs \o cerrs
                    /\ files' = files \cup
                         {ProcPath(ps[j]) : j \in {x \in 1..Len(ps) : copy[x] # "failed"}}
                    /\ Launch(PathsToProcess(unlocked_paths, ps))
                    /\ UNCHANGED <<status, detail, videos, skipped, best_video, cmp_calls>>
  /\ UNCHANGED <<endpoint, n, has_filename, acq>>

compare_videos_urls_joined ==
  /\ endpoint = "urls"
  /\ pc = "processing"
  /\ AllTasksDone
  /\ Finish(errors \o ProcessingSkips(names, summaries))
  /\ \E held \in SUBSET Downloads(files) : files' = RmTree(files, held)
  /\ UNCHANGED <<endpoint, n, has_filename, acq, names, paths, errors, tstate,
                 transcripts, summaries>>

\* compare_videos_urls is resumed at its gather with the exception of a
\* task: the finally block runs and the request ends with status 500.
compare_videos_urls_raised ==
  /\ endpoint = "urls"
  /\ pc = "processing"
  /\ GatherRaised
  /\ Raise(500, [message |-> "Internal Server Error", errors |-> <<>>])
  /\ \E held \in SUBSET Downloads(files) : files' = RmTree(files, held)
  /\ UNCHANGED <<endpoint, n, has_filename, acq, names, paths, errors, tstate,
                 transcripts, summaries>>

(***************************************************************************)
(* The chunked summarizer (summarizer.py)                                  *)
(*                                                                         *)
(* One behaviour is one call summarize_text(text, max_len).  A text is     *)
(* its token length under the BART tokenizer (len(tok.encode(text))) and   *)
(* whether it is empty or whitespace only.  The tokenizer and the          *)
(* summarization pipeline are inputs: a text decoded from token ids        *)
(* measures about as many tokens as the ids it was decoded from, not       *)
(* necessarily as many; a call of the pipeline fails or returns a summary  *)
(* of at most the max_length it was asked for; the loading of either and   *)
(* the tokenizer can raise.                                                *)
(***************************************************************************)
VARIABLES
  text,        \* argument text of summarize_text
  max_len,     \* argument max_len of summarize_text
  spc,         \* position of summarize_text
  parts,       \* parts still to be summarized: the number of token ids of each
  partials,    \* token lengths of the partial summaries, in window order
  block,       \* the call of _summarize_block in hand: arguments, locals, position
  calls,       \* the calls of the pipeline made for that block, in call order
  result       \* what summarize_text returned or raised

svars == <<text, max_len, spc, parts, partials, block, calls, result>>

\* Largest number of 800-token windows of a transcript.
MaxParts == 6

\* Largest difference between the number of token ids a text is decoded
\* from, or the sum of the token lengths of the texts it is joined from,
\* and the token length of that text.
MaxDrift == 1

_MAX_SRC_TOKENS == 900
_CHUNK_TOKENS == 800

\* default of the parameter max_len
DefaultMaxLen == 200

\* _summarize_block: block lengths below which the bounds are shrunk, and
\* the shrunk bounds
TinyTokens == 30
TinyMaxLen == 60
TinyMinLen == 10
SmallTokens == 100
SmallMaxLen == 120
SmallMinLen == 30

\* _summarize_block: floors of the retry's max_length and min_length
RetryMaxFloor == 60
RetryMinFloor == 10

\* summarize_text: bounds of the map calls
MapMaxLen == 160
MapMinLen == 40

\* token length of the fixed text "No content to summarize."
NoContentTokens == 6

\* the values of max_len a caller passes
MaxLens == {1, 10, 40, 59, 60, 100, 119, DefaultMaxLen, 300}

\* the token lengths of the transcripts: the edges of the block sizes and
\* of the budget, transcripts with a short last window, and transcripts of
\* 2..MaxParts full windows
TextTokens ==
  {1, TinyTokens - 1, TinyTokens, SmallTokens - 1, SmallTokens,
   _MAX_SRC_TOKENS, _MAX_SRC_TOKENS + 1,
   2 * _CHUNK_TOKENS + TinyTokens - 1, 2 * _CHUNK_TOKENS + SmallTokens - 1}
  \cup {k * _CHUNK_TOKENS : k \in 2..MaxParts}

Texts ==
  {[tokens |-> t, blank |-> FALSE] : t \in TextTokens}
  \cup {[tokens |-> t, blank |-> TRUE] : t \in {0, 1}}

\* the calls summarize_text(text, max_len) made: every max_len with the
\* transcripts within the budget; with the transcripts over it the default
\* max_len, which is what process_single_video passes, and the smallest
SumInputs ==
  {<<t, m>> \in Texts \X MaxLens :
     t.tokens > _MAX_SRC_TOKENS => m \in {1, DefaultMaxLen}}

NoResult == [kind |-> "none", tokens |-> 0]

\* _token_len(text) of the argument text
_token_len(t) == t.tokens

\* len(tok.encode(tok.decode(sub))) for a list sub of ids token ids: the
\* token lengths the decoded text can have
Reencode(ids) ==
  {t \in (ids - MaxDrift)..(ids + MaxDrift) : t >= 0}

\* _split_by_tokens(text, max_tokens) for a text of tokens token ids: the
\* numbers of ids of the chunks ids[i : i + max_tokens] for i in
\* range(0, len(ids), max_tokens); each chunk is the text tok.decode gives
_split_by_tokens(tokens, max_tokens) ==
  [i \in 1..((tokens + max_tokens - 1) \div max_tokens) |->
     Min(max_tokens, tokens - (i - 1) * max_tokens)]

RECURSIVE SumTokens(_)
SumTokens(s) == IF s = <<>> THEN 0 ELSE Head(s) + SumTokens(Tail(s))

\* _token_len(" ".join(partials)): the token lengths the joined text can have
Join(ps) == Reencode(SumTokens(ps))

\* the lengths _summarize_block asks for, for a block of tlen tokens
BlockLengths(tlen, mx, mn) ==
  IF tlen < TinyTokens
    THEN [max_length |-> Min(mx, TinyMaxLen), min_length |-> TinyMinLen]
  ELSE IF tlen < SmallTokens
    THEN [max_length |-> Min(mx, SmallMaxLen), min_length |-> Min(mn, SmallMinLen)]
  ELSE [max_length |-> mx, min_length |-> mn]

RetryLengthsSame(l) == l

\* the lengths of the retry, from the lengths l of the first call
RetryLengths(l) ==
  [max_length |-> Max(RetryMaxFloor, l.max_length \div 2),
   min_length |-> Max(RetryMinFloor, l.min_length \div 2)]

\* out[0]["summary_text"]: the token lengths of the summary a successful
\* call may return, from one token to the max_length asked for
ServiceOutputs(l) == {1, Min(l.min_length, l.max_length), l.max_length}

\* no call of _summarize_block has been made
NoBlock ==
  [phase |-> "none", ids |-> 0, decoded |-> FALSE, tokens |-> 0,
   max_length |-> 0, min_length |-> 0, at |-> "idle"]

\* _summarize_block(block, max_len=mx, min_len=mn) is called with a text of
\* ids token ids, decoded from them (tok.decode) or not
Enter(phase, ids, decoded, mx, mn) ==
  /\ block' = [phase |-> phase, ids |-> ids, decoded |-> decoded, tokens |-> 0,
               max_length |-> mx, min_length |-> mn, at |-> "enter"]
  /\ calls' = <<>>

\* model(block, max_length=..., min_length=..., do_sample=False)
Call(l, attempt, ok, out) ==
  [phase |-> block.phase, tokens |-> block.tokens, max_length |-> l.max_length,
   min_length |-> l.min_length, attempt |-> attempt, ok |-> ok, out |-> out]

\* an exception leaves summarize_text
SumRaise ==
  /\ spc' = "raised"
  /\ result' = [kind |-> "raised", tokens |-> 0]

SumInit ==
  /\ \E i \in SumInputs : text = i[1] /\ max_len = i[2]
  /\ spc = "start"
  /\ parts = <<>>
  /\ partials = <<>>
  /\ block = NoBlock
  /\ calls = <<>>
  /\ result = NoResult

\* lines 66-67: nothing to summarize
summarize_text_empty ==
  /\ spc = "start"
  /\ text.blank
  /\ spc' = "returned"
  /\ result' = [kind |-> "no_content", tokens |-> NoContentTokens]
  /\ UNCHANGED <<text, max_len, parts, partials, block, calls>>

\* line 70: _token_len(text) loads the tokenizer and encodes the text, or
\* raises
summarize_text_measure ==
  /\ spc = "start"
  /\ ~text.blank
  /\ \/ SumRaise
     \/ spc' = "measured" /\ UNCHANGED result
  /\ UNCHANGED <<text, max_len, parts, partials, block, calls>>

\* lines 70-71: the transcript fits the budget and is passed whole
summarize_text_direct ==
  /\ spc = "measured"
  /\ _token_len(text) <= _MAX_SRC_TOKENS
  /\ Enter("direct", _token_len(text), FALSE, max_len,
           Min(80, Max(40, max_len \div 3)))
  /\ spc' = "direct"
  /\ UNCHANGED <<text, max_len, parts, partials, result>>

\* line 74: the transcript is over the budget and is split, or
\* _split_by_tokens raises
summarize_text_split ==
  /\ spc = "measured"
  /\ _token_len(text) > _MAX_SRC_TOKENS
  /\ \/ SumRaise /\ UNCHANGED parts
     \/ /\ parts' = _split_by_tokens(_token_len(text), _CHUNK_TOKENS)
        /\ spc' = "map"
        /\ UNCHANGED result
  /\ UNCHANGED <<text, max_len, partials, block, calls>>

\* lines 76-77: the loop over parts takes the next part
summarize_text_map ==
  /\ spc = "map"
  /\ block.at \in {"idle", "returned"}
  /\ parts # <<>>
  /\ Enter("map", Head(parts), TRUE, MapMaxLen, MapMinLen)
  /\ parts' = Tail(parts)
  /\ UNCHANGED <<text, max_len, spc, partials, result>>

TruncateNever(tokens) == tokens

\* lines 81-82: the number of token ids of the combined text passed on:
\* over the budget it is cut to its first _MAX_SRC_TOKENS ids
Truncate(tokens) ==
  IF tokens > _MAX_SRC_TOKENS
    THEN _split_by_tokens(tokens, _MAX_SRC_TOKENS)[1]
    ELSE tokens

\* lines 79-84: after the loop the partial summaries are joined and
\* measured, cut when over the budget (the cut text is decoded from the
\* ids kept), and passed to the final _summarize_block; _token_len or
\* _split_by_tokens can raise
summarize_text_reduce ==
  /\ spc = "map"
  /\ block.at \in {"idle", "returned"}
  /\ parts = <<>>
  /\ \/ SumRaise /\ UNCHANGED <<block, calls>>
     \/ /\ \E combined \in Join(partials) :
             Enter("reduce", Truncate(combined), combined > _MAX_SRC_TOKENS,
                   max_len, Min(100, Max(50, max_len \div 2)))
        /\ spc' = "reduce"
        /\ UNCHANGED result
  /\ UNCHANGED <<text, max_len, parts, partials>>

\* _summarize_block raises: the exception leaves summarize_text too
BlockRaises ==
  /\ block' = [block EXCEPT !.at = "raised"]
  /\ SumRaise
  /\ UNCHANGED partials

\* _summarize_block returns a summary of out tokens: to the loop of
\* summarize_text, which appends it to partials, or as the value
\* summarize_text returns
BlockReturns(out) ==
  /\ block' = [block EXCEPT !.at = "returned"]
  /\ IF block.phase = "map"
     THEN /\ partials' = Append(partials, out)
          /\ UNCHANGED <<spc, result>>
     ELSE /\ spc' = "returned"
          /\ result' = [kind |-> "summary", tokens |-> out]
          /\ UNCHANGED partials

\* lines 46-54: get_summarizer() and _token_len(block), which stand before
\* the try and can raise with no call of the pipeline made, and the
\* clamping of max_len and min_len; a block decoded from token ids
\* measures what its re-encoding gives
_summarize_block_enter ==
  /\ block.at = "enter"
  /\ \/ BlockRaises
     \/ /\ \E tlen \in (IF block.decoded THEN Reencode(block.ids)
                                          ELSE {block.ids}) :
             LET l == BlockLengths(tlen, block.max_length, block.min_length)
             IN  block' = [block EXCEPT !.tokens = tlen,
                                        !.max_length = l.max_length,
                                        !.min_length = l.min_length,
                                        !.at = "try"]
        /\ UNCHANGED <<spc, partials, result>>
  /\ UNCHANGED <<text, max_len, parts, calls>>

\* lines 55-57: the first call of the pipeline returns a summary, or
\* raises and the except branch is entered
_summarize_block_try ==
  /\ block.at = "try"
  /\ \/ \E out \in ServiceOutputs(block) :
          /\ calls' = Append(calls, Call(block, 1, TRUE, out))
          /\ BlockReturns(out)
     \/ /\ calls' = Append(calls, Call(block, 1, FALSE, 0))
        /\ block' = [block EXCEPT !.at = "except"]
        /\ UNCHANGED <<spc, partials, result>>
  /\ UNCHANGED <<text, max_len, parts>>

\* lines 58-61: the retry with reduced lengths returns a summary, or
\* raises, and nothing handles that
_summarize_block_except ==
  /\ block.at = "except"
  /\ LET retry == RetryLengths([max_length |-> block.max_length,
                                min_length |-> block.min_length])
     IN  \/ \E out \in ServiceOutputs(retry) :
              /\ calls' = Append(calls, Call(retry, 2, TRUE, out))
              /\ BlockReturns(out)
         \/ /\ calls' = Append(calls, Call(retry, 2, FALSE, 0))
            /\ BlockRaises
  /\ UNCHANGED <<text, max_len, parts>>

\* no call of summarize_text: the default arguments, nothing summarized
SumParked ==
  /\ SumInit
  /\ text = [tokens |-> 0, blank |-> TRUE]
  /\ max_len = DefaultMaxLen

(***************************************************************************)
(* The Comparator on its own (comparator.py)                               *)
(*                                                                         *)
(* One behaviour is one call choose_best(summaries, topic) with two        *)
(* summaries.  What the Comparator reads from a summary - its cosine       *)
(* similarity to the topic, the topic words it contains, its word count -  *)
(* is an input.                                                            *)
(***************************************************************************)
VARIABLES
  scored,      \* argument summaries of choose_best
  chosen       \* what choose_best returned

cvars == <<scored, chosen>>

\* cosine similarities to the topic, in hundredths
SemValues == {-20, 0, 10, 40, 41, 58, 59, 100}

\* word counts of a summary
WordCounts == {4, 60, 120, 140, 150, 280, 300}

ScoredTexts ==
  {Text(FALSE, "summary", 0, s, h, w) :
     s \in SemValues, h \in 0..TopicLen, w \in WordCounts}

NotChosen == [best_index |-> 0, scores |-> <<>>]

CmpInit ==
  /\ scored \in {<<a, b>> : a \in ScoredTexts, b \in ScoredTexts}
  /\ chosen = NotChosen

\* choose_best(summaries, topic_keywords)
choose_best_call ==
  /\ chosen = NotChosen
  /\ chosen' = choose_best(scored)
  /\ UNCHANGED scored

\* choose_best has not been called
CmpParked ==
  /\ CmpInit
  /\ scored = <<Text(FALSE, "summary", 0, 0, 0, 4), Text(FALSE, "summary", 0, 0, 0, 4)>>

(***************************************************************************)
(* The lazily loaded service handles                                       *)
(* (video_processor.get_model, summarizer.get_summarizer and               *)
(* get_tokenizer, comparator.get_model)                                    *)
(*                                                                         *)
(* One behaviour is one process.  process_video and summarize_text run in  *)
(* the worker threads of asyncio.to_thread and call the getters of the     *)
(* Whisper model, the summarization pipeline and the tokenizer;            *)
(* choose_best runs in the event loop thread and calls the getter of the   *)
(* embedding model.  A getter is four steps: the test of the global        *)
(* against None, the load, which can raise, the assignment, and the        *)
(* return.  The getters a worker thread calls depend on its item: on       *)
(* whether the transcript is blank, within the budget, or over it and      *)
(* then on the number of its windows.                                      *)
(***************************************************************************)
VARIABLES
  handle,      \* handle[s]: the module global of service s, 0 for None
  inits,       \* inits[s]: number of times service s was loaded
  tpc,         \* tpc[t]: position of thread t in the getter it runs
  plan,        \* plan[t]: the getters thread t calls when none raises
  ncalls,      \* ncalls[t]: getter calls thread t has completed
  returned     \* the handles the getter calls returned, per service

lvars == <<handle, inits, tpc, plan, ncalls, returned>>

\* Largest number of worker threads.
MaxWorkers == 2

Services == {"whisper", "summarizer", "tokenizer", "embedding"}

\* the event loop thread
Loop == 0
Threads == {Loop} \cup 1..MaxWorkers

\* the getters one call of _summarize_block makes: get_summarizer, and
\* get_tokenizer in _token_len
BlockCalls == <<"summarizer", "tokenizer">>

RECURSIVE MapCalls(_)
\* the getters the loop over the parts makes for windows parts
MapCalls(windows) ==
  IF windows = 0 THEN <<>> ELSE BlockCalls \o MapCalls(windows - 1)

\* the getters a worker thread calls for one item whose transcript is not
\* blank, in call order: transcribe_audio, then summarize_text.  A
\* transcript within the budget (windows = 0) is measured and passed to
\* _summarize_block; one over the budget is measured, split
\* (_split_by_tokens calls get_tokenizer), each window goes to
\* _summarize_block, the joined partial summaries are measured, cut when
\* over the budget (_split_by_tokens again) and passed to _summarize_block
WorkerCalls(windows, cut) ==
  IF windows = 0
    THEN <<"whisper", "tokenizer">> \o BlockCalls
    ELSE <<"whisper", "tokenizer", "tokenizer">> \o MapCalls(windows)
           \o <<"tokenizer">>
           \o (IF cut THEN <<"tokenizer">> ELSE <<>>)
           \o BlockCalls

\* the getter calls of the items: a blank transcript (Whisper only), a
\* transcript within the budget, a transcript of two windows, and one of
\* MaxParts windows whose partial summaries are cut
WorkerPlans ==
  {<<"whisper">>, WorkerCalls(0, FALSE), WorkerCalls(2, FALSE),
   WorkerCalls(MaxParts, TRUE)}

\* the getter the event loop thread calls in choose_best, for two requests
LoopCalls == <<"embedding", "embedding">>

\* the getters thread t calls, in call order
CallsOf(t) == plan[t]

Idle == [at |-> "idle", svc |-> "", h |-> 0]

LazyInit ==
  /\ handle = [s \in Services |-> 0]
  /\ inits = [s \in Services |-> 0]
  /\ tpc = [t \in Threads |-> Idle]
  /\ plan \in [Threads -> WorkerPlans \cup {LoopCalls}]
  /\ \A t \in Threads : plan[t] = LoopCalls <=> t = Loop
  /\ ncalls = [t \in Threads |-> 0]
  /\ returned = [s \in Services |-> {}]

\* if X is None:
get_test(t) ==
  /\ tpc[t].at = "idle"
  /\ ncalls[t] < Len(CallsOf(t))
  /\ LET s == CallsOf(t)[ncalls[t] + 1]
     IN  tpc' = [tpc EXCEPT ![t] =
                   [at |-> IF handle[s] = 0 THEN "load" ELSE "return",
                    svc |-> s, h |-> 0]]
  /\ UNCHANGED <<handle, inits, plan, ncalls, returned>>

\* whisper.load_model(...) / pipeline(...) / AutoTokenizer.from_pretrained(...)
\* / SentenceTransformer(...): a new handle, or the loader raises: the
\* global stays None and the exception leaves the getter and ends the
\* item of a worker thread, or the call of choose_best
get_load(t) ==
  /\ tpc[t].at = "load"
  /\ \/ /\ inits' = [inits EXCEPT ![tpc[t].svc] = @ + 1]
        /\ tpc' = [tpc EXCEPT ![t] = [@ EXCEPT !.at = "assign",
                                               !.h = inits[tpc[t].svc] + 1]]
        /\ UNCHANGED ncalls
     \/ /\ tpc' = [tpc EXCEPT ![t] = Idle]
        /\ ncalls' = [ncalls EXCEPT ![t] =
                        IF t = Loop THEN @ + 1 ELSE Len(CallsOf(t))]
        /\ UNCHANGED inits
  /\ UNCHANGED <<handle, plan, returned>>

\* X = <the handle loaded>
get_assign(t) ==
  /\ tpc[t].at = "assign"
  /\ handle' = [handle EXCEPT ![tpc[t].svc] = tpc[t].h]
  /\ tpc' = [tpc EXCEPT ![t] = [@ EXCEPT !.at = "return"]]
  /\ UNCHANGED <<inits, plan, ncalls, returned>>

\* return X
get_return(t) ==
  /\ tpc[t].at = "return"
  /\ returned' = [returned EXCEPT ![tpc[t].svc] = @ \cup {handle[tpc[t].svc]}]
  /\ ncalls' = [ncalls EXCEPT ![t] = @ + 1]
  /\ tpc' = [tpc EXCEPT ![t] = Idle]
  /\ UNCHANGED <<handle, inits, plan>>

\* no getter has been called: every worker's item has a blank transcript
LazyParked ==
  /\ LazyInit
  /\ \A t \in Threads \ {Loop} : plan[t] = <<"whisper">>

(***************************************************************************)
(* The downloader (_download_with_yt_dlp of app.py)                        *)
(*                                                                         *)
(* One behaviour is one call _download_with_yt_dlp(url, out_dir).  The     *)
(* directory out_dir holds, of the files named <tmp_id>.*, the expected    *)
(* one (<tmp_id>.<ext>) and another one (a different extension), or        *)
(* neither.  yt-dlp, the processes that hold or release the files, and the *)
(* rename are inputs.                                                      *)
(***************************************************************************)
VARIABLES
  dpc,         \* position of _download_with_yt_dlp
  dfiles,      \* the files <tmp_id>.* that exist in out_dir
  last_found,  \* local last_found: "unassigned", "none" for None, or a file
  polls,       \* rounds of the loop "for _ in range(10)" begun
  dresult      \* what _download_with_yt_dlp returned or raised

dvars == <<dpc, dfiles, last_found, polls, dresult>>

\* for _ in range(10)
PollRounds == 10

DirFiles == {"expected", "other"}

NoDownload == [kind |-> "none", path |-> "none"]

DlInit ==
  /\ dpc = "start"
  /\ dfiles = {}
  /\ last_found = "unassigned"
  /\ polls = 0
  /\ dresult = NoDownload

\* the exception ends _download_with_yt_dlp
DlRaise == dresult' = [kind |-> "raised", path |-> "none"] /\ dpc' = "done"

\* line 107: ydl.extract_info(url, download=True) raises or returns, and
\* either way has left some of the files in out_dir (a download that
\* breaks off keeps its partial files)
dl_extract_info ==
  /\ dpc = "start"
  /\ dfiles' \in SUBSET DirFiles
  /\ \/ DlRaise
     \/ /\ dpc' = "extracted"
        /\ UNCHANGED dresult
  /\ UNCHANGED <<last_found, polls>>

\* lines 112-114: if not expected.exists(): last_found = None
dl_expected_exists ==
  /\ dpc = "extracted"
  /\ IF "expected" \in dfiles
     THEN dpc' = "finish" /\ UNCHANGED last_found
     ELSE dpc' = "poll" /\ last_found' = "none"
  /\ UNCHANGED <<dfiles, polls, dresult>>

\* lines 115-125: one round of the loop.  Since the last look other
\* processes may have added files to out_dir or removed files from it; the
\* rename of a file that is held raises.
dl_poll ==
  /\ dpc = "poll"
  /\ polls < PollRounds
  /\ polls' = polls + 1
  /\ \E matches \in SUBSET DirFiles :
       IF matches = {}
         THEN /\ last_found' = "none"
              /\ dfiles' = matches
              /\ dpc' = IF polls' = PollRounds THEN "finish" ELSE "poll"
         ELSE \E f \in matches, renamed \in BOOLEAN :
                /\ last_found' = f
                /\ IF renamed
                     THEN /\ dfiles' = (matches \ {f}) \cup {"expected"}
                          /\ dpc' = "finish"
                     ELSE /\ dfiles' = matches
                          /\ dpc' = IF polls' = PollRounds THEN "finish" ELSE "poll"
  /\ UNCHANGED dresult

\* lines 126-127: expected.exists() is looked up again, on the directory as
\* it is by then, and the path is returned; reading last_found, which is
\* assigned only under "if not expected.exists()", raises UnboundLocalError
\* when it was never assigned.
dl_return ==
  /\ dpc = "finish"
  /\ \E seen \in SUBSET DirFiles :
       /\ dfiles' = seen
       /\ IF "expected" \in seen
          THEN dresult' = [kind |-> "returned", path |-> "expected"] /\ dpc' = "done"
          ELSE IF last_found = "unassigned"
          THEN DlRaise
          ELSE /\ dresult' = [kind |-> "returned",
                              path |-> IF last_found # "none" THEN last_found
                                       ELSE "expected"]
               /\ dpc' = "done"
  /\ UNCHANGED <<last_found, polls>>

\* _download_with_yt_dlp is not running
DlParked == DlInit

\* the variables of the other parts of the program, which a request leaves alone
others == <<svars, cvars, lvars, dvars>>

Next ==
  \/ compare_videos_begin /\ UNCHANGED others
  \/ \E i \in Sources : save_file_open(i) /\ UNCHANGED others
  \/ \E i \in Sources : save_file(i) /\ UNCHANGED others
  \/ compare_videos_saved /\ UNCHANGED others
  \/ compare_videos_joined /\ UNCHANGED others
  \/ compare_videos_raised /\ UNCHANGED others
  \/ compare_videos_urls_begin /\ UNCHANGED others
  \/ \E i \in Sources : extract_info(i) /\ UNCHANGED others
  \/ \E i \in Sources : download_video_async(i) /\ UNCHANGED others
  \/ compare_videos_urls_downloaded /\ UNCHANGED others
  \/ compare_videos_urls_joined /\ UNCHANGED others
  \/ compare_videos_urls_raised /\ UNCHANGED others
  \/ \E k \in Tasks : extract_audio(k) /\ UNCHANGED others
  \/ \E k \in Tasks : extract_audio_run(k) /\ UNCHANGED others
  \/ \E k \in Tasks : transcribe_audio(k) /\ UNCHANGED others
  \/ \E k \in Tasks : process_video(k) /\ UNCHANGED others
  \/ \E k \in Tasks : safe_process_except(k) /\ UNCHANGED others
  \/ \E k \in Tasks : Summarize(k) /\ UNCHANGED others

\* every variable of the model
allvars == <<vars, others>>

\* no request: the handlers of app.py are not running
NoRequest == Init /\ endpoint = "urls" /\ n = 0

\* one request; no other part of the program runs
SpecInit == Init /\ SumParked /\ CmpParked /\ LazyParked /\ DlParked
Spec == SpecInit /\ [][Next]_allvars

\* one call of summarize_text; no request is being handled
SumSpecInit == SumInit /\ NoRequest /\ CmpParked /\ LazyParked /\ DlParked

SumNext ==
  \/ summarize_text_empty /\ UNCHANGED <<vars, cvars, lvars, dvars>>
  \/ summarize_text_measure /\ UNCHANGED <<vars, cvars, lvars, dvars>>
  \/ summarize_text_direct /\ UNCHANGED <<vars, cvars, lvars, dvars>>
  \/ summarize_text_split /\ UNCHANGED <<vars, cvars, lvars, dvars>>
  \/ summarize_text_map /\ UNCHANGED <<vars, cvars, lvars, dvars>>
  \/ summarize_text_reduce /\ UNCHANGED <<vars, cvars, lvars, dvars>>
  \/ _summarize_block_enter /\ UNCHANGED <<vars, cvars, lvars, dvars>>
  \/ _summarize_block_try /\ UNCHANGED <<vars, cvars, lvars, dvars>>
  \/ _summarize_block_except /\ UNCHANGED <<vars, cvars, lvars, dvars>>

SumSpec == SumSpecInit /\ [][SumNext]_allvars

\* one call of choose_best on two summaries
CmpSpecInit == CmpInit /\ NoRequest /\ SumParked /\ LazyParked /\ DlParked

CmpNext ==
  \/ choose_best_call /\ UNCHANGED <<vars, svars, lvars, dvars>>

CmpSpec == CmpSpecInit /\ [][CmpNext]_allvars

\* the threads of one process calling the getters
LazySpecInit == LazyInit /\ NoRequest /\ SumParked /\ CmpParked /\ DlParked

LazyNext ==
  \/ \E t \in Threads : get_test(t) /\ UNCHANGED <<vars, svars, cvars, dvars>>
  \/ \E t \in Threads : get_load(t) /\ UNCHANGED <<vars, svars, cvars, dvars>>
  \/ \E t \in Threads : get_assign(t) /\ UNCHANGED <<vars, svars, cvars, dvars>>
  \/ \E t \in Threads : get_return(t) /\ UNCHANGED <<vars, svars, cvars, dvars>>

LazySpec == LazySpecInit /\ [][LazyNext]_allvars

\* one call of _download_with_yt_dlp
DlSpecInit == DlInit /\ NoRequest /\ SumParked /\ CmpParked /\ LazyParked

DlNext ==
  \/ dl_extract_info /\ UNCHANGED <<vars, svars, cvars, lvars>>
  \/ dl_expected_exists /\ UNCHANGED <<vars, svars, cvars, lvars>>
  \/ dl_poll /\ UNCHANGED <<vars, svars, cvars, lvars>>
  \/ dl_return /\ UNCHANGED <<vars, svars, cvars, lvars>>

DlSpec == DlSpecInit /\ [][DlNext]_allvars

(***************************************************************************)
(* Properties                                                              *)
(***************************************************************************)
Done == pc = "done"
\* the handler returned the report
Responded == Done /\ status = 200

\* the entries of the report that name source i
Occurrences(i) ==
  Cardinality({k \in 1..Len(videos) : videos[k].name.src = i})
    + Cardinality({k \in 1..Len(skipped) : skipped[k].name.src = i})

\* C1: in a report, len(videos) + len(skipped) equals the number of
\* submitted sources and every source appears in exactly one entry of the
\* two lists together.
C1_EverySourceOnce ==
  Responded =>
    /\ Len(videos) + Len(skipped) = n
    /\ \A i \in Sources : Occurrences(i) = 1

\* a processing-failure entry of skipped: its error is the f"ERROR: {e}"
\* a task returned
IsProcessingSkip(e) == StartsWithError(e.error)

\* C2: in a report of compare_videos_urls, every entry of videos and every
\* processing-failure entry of skipped carries the display name of the
\* source whose media produced its summary or error.
C2_NameOfOwnSource ==
  (endpoint = "urls" /\ Responded) =>
    /\ \A k \in 1..Len(videos) :
         videos[k].name = DisplayName(videos[k].summary.media)
    /\ \A k \in 1..Len(skipped) :
         IsProcessingSkip(skipped[k]) =>
           skipped[k].name = DisplayName(skipped[k].error.media)

\* C3: in a report, videos and skipped are each ordered by the submission
\* index of the source the entry is about.
C3_SubmissionOrder ==
  Responded =>
    /\ \A j, k \in 1..Len(videos) :
         j < k => videos[j].summary.media < videos[k].summary.media
    /\ \A j, k \in 1..Len(skipped) :
         j < k => skipped[j].error.media <= skipped[k].error.media

\* position k of videos holds the maximum score and is the first to hold it
FirstMaximal(k) ==
  /\ \A j \in 1..Len(videos) : ~ScoreLess(videos[k].score, videos[j].score)
  /\ \A j \in 1..(k - 1) : ScoreLess(videos[j].score, videos[k].score)

\* C4: in a report, best_video is the name of the entry of videos that is
\* the first to hold the maximum score (stable argmax); that entry holds a
\* summary, with the score of that summary, and the source it names is not
\* listed in skipped.
C4_BestIsFirstMaximal ==
  Responded =>
    \E k \in 1..Len(videos) :
      /\ best_video = videos[k].name
      /\ FirstMaximal(k)
      /\ videos[k].score = Score(videos[k].summary)
      /\ ~StartsWithError(videos[k].summary)
      /\ \A j \in 1..Len(skipped) : skipped[j].name.src # best_video.src

\* the reasons with which transcription or summarization raise
RaisedReasons ==
  {"no temporary file", "ffmpeg failed", "transcription failed",
   "summarization failed"}

\* task k ended because its transcription or its summarization raised
Raised(k) ==
  /\ tstate[k] = "done"
  /\ StartsWithError(summaries[k])
  /\ summaries[k].body \in RaisedReasons

\* task k returned a summary that the join accepts
Succeeded(k) == tstate[k] = "done" /\ ~StartsWithError(summaries[k])

\* task k has ended: it returned a value, or an exception left it
Ended(k) == tstate[k] \in {"done", "crashed"}

\* C5: failures of transcription or summarization are isolated per item.
\* When the handler has ended and every task has ended, every task ended
\* with a summary or with f"ERROR: {reason}" derived from its own media,
\* the request was answered with the report if some task succeeded, and the
\* report lists every task that raised as a skipped entry carrying its
\* reason.
C5_FailureIsolation ==
  (Done /\ Len(tstate) > 0 /\ \A k \in Tasks : Ended(k)) =>
    /\ \A k \in Tasks :
         /\ tstate[k] = "done"
         /\ summaries[k].media = paths[k].src
    /\ (\E k \in Tasks : Succeeded(k)) => status = 200
    /\ status = 200 =>
         \A k \in Tasks :
           Raised(k) =>
             \E j \in 1..Len(skipped) : skipped[j].error = summaries[k]

\* the acquisition failure of source i is captured as a skip entry
Captured(i) ==
  \/ \E j \in 1..Len(errors) : errors[j].name.src = i
  \/ \E j \in 1..Len(skipped) : skipped[j].name.src = i /\ ~IsProcessingSkip(skipped[j])

\* C6: acquisition is never fail-fast.  When the handler has ended and the
\* acquisition of some source failed, that failure is captured as a skip
\* entry, no acquisition of another source is still running, and if some
\* source was acquired the request went on to process the acquired ones.
C6_NeverFailFast ==
  Done =>
    \A i \in Sources :
      acq[i] = "failed" =>
        /\ Captured(i)
        /\ \A j \in Sources : acq[j] \in {"ok", "nofile", "failed"}
        /\ (\E j \in Sources : Returned(j)) => Len(tstate) > 0

\* C7: choose_best is called only after every task of the request has
\* returned (summarized or failed).
C7_CompareAfterJoin ==
  Len(cmp_calls) > 0 => \A k \in Tasks : tstate[k] = "done"

\* choose_best was called in a request of three tasks, of which some
\* failed and some succeeded
C7_Witness ==
  /\ Len(cmp_calls) > 0
  /\ Len(tstate) = 3
  /\ \E a, b \in Tasks : Raised(a) /\ Succeeded(b)

\* C8: when the handler has ended and every task has ended, none with a
\* valid summary, the request failed with the aggregate failure (status
\* 500 with the detail of the aggregate failure), choose_best was not
\* called and there is no report; and choose_best is never called with an
\* empty list.
C8_AggregateFailure ==
  /\ (Done /\ Len(tstate) > 0 /\ \A k \in Tasks : Ended(k) /\ ~Succeeded(k)) =>
       /\ status = 500
       /\ detail.message = AggregateMessage
       /\ Len(cmp_calls) = 0
       /\ Len(videos) = 0
  /\ \A c \in 1..Len(cmp_calls) : Len(cmp_calls[c]) > 0

\* the download of source i failed: it raised, or it returned a path at
\* which there is no file
DownloadFailed(i) == acq[i] \in {"failed", "nofile"}

\* C9: compare_videos_urls ends with 400 exactly when urls is empty, and
\* then nothing was downloaded; when urls is non-empty and every download
\* has failed it ends with 502, the detail carries one error entry per URL,
\* in order, no task was started and there are no videos, and it ends with
\* 502 in no other case; and it ends with 500 when some URL was downloaded
\* and every task ended without a valid summary.
C9_UrlFailures ==
  (endpoint = "urls" /\ Done) =>
    /\ status = 400 <=> n = 0
    /\ status = 400 => files = {} /\ Len(tstate) = 0
    /\ status = 502 => (n > 0 /\ \A i \in Sources : DownloadFailed(i))
    /\ (n > 0 /\ \A i \in Sources : DownloadFailed(i)) =>
         /\ status = 502
         /\ Len(detail.errors) = n
         /\ \A i \in Sources : detail.errors[i].name = Url(i)
         /\ Len(tstate) = 0
         /\ Len(videos) = 0
         /\ Len(cmp_calls) = 0
    /\ ((\E i \in Sources : acq[i] = "ok")
          /\ Len(tstate) > 0
          /\ \A k \in Tasks : Ended(k) /\ ~Succeeded(k)) =>
         status = 500

\* the media files of the request: uploads, downloads and proc_ copies
MediaFiles == {f \in files : f.kind \in {"upload", "dl", "proc"}}

\* C10: when the handler has ended, on any exit path, no uploaded temp
\* file, downloaded file or proc_ copy of the request exists.
C10_NoMediaLeft == Done => MediaFiles = {}

(***************************************************************************)
(* Properties of the chunked summarizer                                    *)
(***************************************************************************)
\* C11: for a transcript with content, under or over the budget, the text
\* summarize_text(text, max_len) returns is no longer than max_len tokens,
\* whether the final call succeeded at once or on its retry.
C11_SummaryWithinMaxLen ==
  (spc = "returned" /\ ~text.blank) => result.tokens <= max_len

\* C12: a block costs at most two calls of the pipeline.  The second call
\* is the retry of a first call that failed, for the same block, with
\* max_length and min_length half those of the first call but not under 60
\* and 10; a first call that failed is followed by the retry; after a
\* failed retry no call follows and the error leaves summarize_text; a
\* first call that succeeded is followed by no retry.
C12_RetryOnce ==
  /\ Len(calls) <= 2
  /\ \A j \in 1..Len(calls) :
       /\ calls[j].attempt = j
       /\ calls[j].phase = block.phase
       /\ calls[j].tokens = block.tokens
  /\ Len(calls) = 2 =>
       /\ ~calls[1].ok
       /\ calls[2].max_length = Max(60, calls[1].max_length \div 2)
       /\ calls[2].min_length = Max(10, calls[1].min_length \div 2)
  /\ (Len(calls) >= 1 /\ calls[1].ok) =>
       Len(calls) = 1 /\ block.at = "returned"
  /\ (Len(calls) = 1 /\ ~calls[1].ok) => block.at = "except"
  /\ (Len(calls) = 2 /\ calls[2].ok) => block.at = "returned"
  /\ (Len(calls) = 2 /\ ~calls[2].ok) =>
       /\ block.at = "raised"
       /\ spc = "raised"
       /\ result.kind = "raised"

\* the first call for a window failed and the window was retried with 80
\* and 20 in place of 160 and 40, successfully
C12_Witness ==
  /\ block.phase = "map"
  /\ Len(calls) = 2
  /\ ~calls[1].ok
  /\ calls[1].max_length = 160
  /\ calls[2].ok
  /\ calls[2].max_length = 80
  /\ calls[2].min_length = 20

\* the windows of the transcript passed to the pipeline before the block
\* in hand
WindowsBefore ==
  IF block.at = "returned" THEN Len(partials) - 1 ELSE Len(partials)

\* C16: every text passed to the pipeline is made of at most 900 token
\* ids.  A transcript within the budget is passed whole; a transcript over
\* it is passed as the decodings of windows of 800 token ids that follow
\* one another without overlap (the window after j windows is ids 800j to
\* 800(j+1), the last one the remainder, and the parts still to come are
\* the rest of the transcript); the final pass comes after every window
\* and gets the joined partial summaries, whole when they measure at most
\* 900 tokens and otherwise the decoding of their first 900 token ids.
C16_IdsWithinBudget ==
  Len(calls) > 0 =>
    /\ block.ids <= 900
    /\ block.phase = "direct" =>
         /\ ~block.decoded
         /\ block.ids = _token_len(text)
         /\ block.tokens = _token_len(text)
    /\ block.phase = "map" =>
         /\ _token_len(text) > 900
         /\ block.decoded
         /\ block.ids >= 1
         /\ block.ids = Min(800, _token_len(text) - 800 * WindowsBefore)
         /\ SumTokens(parts) = _token_len(text) - 800 * WindowsBefore - block.ids
    /\ block.phase = "reduce" =>
         /\ parts = <<>>
         /\ 800 * Len(partials) >= _token_len(text)
         /\ 800 * (Len(partials) - 1) < _token_len(text)
         /\ block.decoded => block.ids = 900
         /\ ~block.decoded => block.tokens = block.ids

\* C16 as stated: moreover every text passed to the pipeline has a token
\* length of at most 900.
C16_WithinBudget ==
  /\ C16_IdsWithinBudget
  /\ Len(calls) > 0 => block.tokens <= 900

\* the partial summaries of six windows add up to more than 900 tokens and
\* the final pass got the decoding of the first 900 ids
C16_Witness ==
  /\ Len(calls) > 0
  /\ block.phase = "reduce"
  /\ Len(partials) = 6
  /\ SumTokens(partials) > 900
  /\ block.decoded
  /\ block.ids = 900

\* C20: every call of the pipeline asks for min_length <= max_length.
C20_MinWithinMax ==
  \A j \in 1..Len(calls) : calls[j].min_length <= calls[j].max_length

(***************************************************************************)
(* Properties of the per-item pipeline                                     *)
(***************************************************************************)
\* transcription of the source of task k yielded no text: its audio could
\* not be decoded, or held no speech
NoTranscriptText(k) ==
  \/ transcripts[k] = "silent"
  \/ /\ tstate[k] = "done"
     /\ StartsWithError(summaries[k])
     /\ summaries[k].body \in {"ffmpeg failed", "transcription failed"}

\* C13: in a report of compare_videos, a file whose transcription yielded
\* no text (corrupted or silent audio) is listed in skipped, is not listed
\* in videos and is not best_video.
C13_NoTextIsSkipped ==
  (endpoint = "upload" /\ Responded) =>
    \A k \in Tasks :
      NoTranscriptText(k) =>
        /\ \E j \in 1..Len(skipped) : skipped[j].name.src = paths[k].src
        /\ \A j \in 1..Len(videos) : videos[j].name.src # paths[k].src
        /\ best_video.src # paths[k].src

\* process_video has returned or raised for task k
ProcessVideoEnded(k) == tstate[k] \in {"transcribed", "raised", "done", "crashed"}

\* C18: once process_video has returned or raised for a media file, the
\* temporary WAV file extracted from it does not exist.
C18_NoWavLeft ==
  \A k \in Tasks : ProcessVideoEnded(k) => WavPath(paths[k]) \notin files

\* the transcription and the summarization of task k both completed
\* without raising
Completed(k) ==
  /\ tstate[k] = "done"
  /\ transcripts[k] \in {"speech", "silent"}
  /\ summaries[k].body \notin RaisedReasons

\* task k is listed in videos / in skipped as a processing failure
InVideos(k) ==
  \E j \in 1..Len(videos) : videos[j].summary.media = paths[k].src

InSkipped(k) ==
  \E j \in 1..Len(skipped) :
    IsProcessingSkip(skipped[j]) /\ skipped[j].error.media = paths[k].src

\* C19: in a report, a task is listed in videos if and only if its
\* transcription and its summarization both completed without raising, and
\* in skipped if and only if one of them raised.
C19_ReportedIffCompleted ==
  Responded =>
    \A k \in Tasks :
      /\ InVideos(k) <=> Completed(k)
      /\ InSkipped(k) <=> ~Completed(k)

(***************************************************************************)
(* Properties of the Comparator                                            *)
(***************************************************************************)
\* summary A (the first) is more similar to the topic than summary B (the
\* second), A has 120 words and B has 300, and choose_best has scored them
HigherSemanticShorter ==
  /\ chosen # NotChosen
  /\ scored[1].sem > scored[2].sem
  /\ scored[1].words = 120
  /\ scored[2].words = 300

\* C14 as stated: whenever A is more similar to the topic than B, A has
\* 120 words and B has 300, the score of A is strictly greater than the
\* score of B.
C14_HigherSemanticWins ==
  HigherSemanticShorter => ScoreLess(chosen.scores[2], chosen.scores[1])

\* C14: whenever A is more similar to the topic than B, A contains at least
\* as many of the topic's words as B, A has 120 words and B has 300, the
\* score of A is strictly greater than the score of B and choose_best
\* returns A.
C14_HigherSemanticAndCoverageWins ==
  (HigherSemanticShorter /\ scored[1].hits >= scored[2].hits) =>
    /\ ScoreLess(chosen.scores[2], chosen.scores[1])
    /\ chosen.best_index = 1

\* A is more similar by one hundredth, contains every word of the topic as
\* B does, and has been scored against B
C14_Witness ==
  /\ HigherSemanticShorter
  /\ scored[1].sem = scored[2].sem + 1
  /\ scored[1].hits = TopicLen
  /\ scored[2].hits = TopicLen

(***************************************************************************)
(* Properties of the service handles                                       *)
(***************************************************************************)
\* C15: in every interleaving of the threads, each service handle is
\* loaded at most once, and every getter call returns that one handle.
C15_InitializedOnce ==
  \A s \in Services :
    /\ inits[s] <= 1
    /\ returned[s] \subseteq {1}

(***************************************************************************)
(* Properties of the downloader                                            *)
(***************************************************************************)
\* C17: the loop that looks for the downloaded file and renames it runs at
\* most 10 rounds, and when _download_with_yt_dlp has ended after the 10
\* rounds with no file at the expected path it has raised, not returned a
\* path.
C17_GivesUpWithError ==
  /\ polls <= 10
  /\ (dpc = "done" /\ polls = PollRounds /\ "expected" \notin dfiles) =>
       dresult.kind = "raised"

====
